---- MODULE Spec2Model ----
(***************************************************************************)
(* The job orchestrator of server/app/services/run_jobs.py (class Jobs),   *)
(* the three HTTP handlers of server/app/server.py that drive it, and the  *)
(* watchdog timer threads it starts.  The Flask server is threaded and a   *)
(* threading.Timer runs its callback on a thread of its own, so every      *)
(* handler is a sequence of steps that interleave with the other threads'. *)
(***************************************************************************)
EXTENDS Integers, Sequences, FiniteSets, TLC

\* ------------------------------------------------------------------ bounds
NumJobs == 2
NumThreads == 2
\* The HTTP requests a run receives.
MaxRequests == 3
\* The labels of a hostname.
MaxLabels == 3

\* ------------------------------------------------------- program constants
MAX_SUBSEQUENT_RUN_JOBS_FAILURE_ALLOWED == 3
MAX_SUBSEQUENT_EXECUTION_FAILURES_ALLOWED == 5
DEFAULT_JOB_TIMEOUT == 5 * 60

\* A job key; 0 is Python's None.
JobKeys == 1..NumJobs
\* The request threads of the threaded Flask server.
Requests == 1..NumThreads
\* The thread of the threading.Timer started for job j.
TimerThread(j) == NumThreads + j
TimerThreads == {TimerThread(j) : j \in JobKeys}
Threads == Requests \cup TimerThreads
\* The job key the timer thread t was started for (the closure's job_key).
KeyOf(t) == t - NumThreads

\* ------------------------------------------------------------------- enums
\* A Python value is tagged with its type: a str never equals an Enum member.
Str(s) == [type |-> "str", value |-> s]
FailureAction == [CONTINUE    |-> [type |-> "FailureAction", value |-> "CONTINUE"],
                  ALERT_STOP  |-> [type |-> "FailureAction", value |-> "ALERT_STOP"],
                  SILENT_STOP |-> [type |-> "FailureAction", value |-> "SILENT_STOP"]]
\* Python's == between two values.
PyEq(a, b) == a = b

ExecutionResult == {"PENDING", "PROCESSING", "JOB_EXPIRED", "UNSUPPORTED_PLATFORM",
                    "FAILED", "APPLIED"}
ApplicationStatus_WithFailed == {"INIT", "IN_PROGRESS", "JOB_EXPIRED", "APPLIED", "FAILED"}
ApplicationStatus == {"INIT", "IN_PROGRESS", "JOB_EXPIRED", "APPLIED"}
\* What os.getenv("FAILURE_ACTION", "ALERT_STOP") can load for the three policies.
ConfiguredFailureActions == {Str("CONTINUE"), Str("ALERT_STOP"), Str("SILENT_STOP")}

VARIABLES
    FAILURE_ACTION,        \* config.env_config.FAILURE_ACTION
    is_automation_active,  \* automation_controller.is_automation_active
    current_job,           \* Jobs.current_job: a job key, 0 for None
    chain_enabled,         \* Jobs.chain_enabled
    failure_count,         \* Jobs.current_subsequent_execution_failure_count
    execution_timer,       \* Jobs._execution_timer: the timer's job key, 0 for None
    timer,                 \* the threading.Timer objects, by the job key of each
    store,                 \* the remote job rows, by key
    th,                    \* every thread's position and locals
    rpc,                   \* the store RPC the latest step issued
    notified,              \* the latest step called breakpoint_notifier
    reply,                 \* what the latest step answered to an HTTP request
    requests               \* the HTTP requests received so far

vars == <<FAILURE_ACTION, is_automation_active, current_job, chain_enabled,
          failure_count, execution_timer, timer, store, th, rpc, notified, reply,
          requests>>

\* ------------------------------------------------------------ thread state
\* pc: the position; op: the entry point the thread runs ("start", "report",
\* "timeout"); fails: run_next_job's current_subsequent_run_jobs_failure_count;
\* job, url: run_next_job's job and whether it has an applyUrl; result, key,
\* orphan, eft: set_execution_result's result, key, is_orphan and
\* execution_failure_type.
Idle == [pc |-> "idle", op |-> "none", fails |-> 0, job |-> 0, url |-> FALSE,
         result |-> "none", key |-> 0, orphan |-> FALSE, eft |-> FALSE]

NoRpc == [op |-> "none"]
FetchRpc(j) == [op |-> "fetch", got |-> j]
\* path: the caller of update_database ("report", "open" or "timeout").
UpsertRpc(path, k, er, as, ok) ==
    [op |-> "upsert", path |-> path, key |-> k, executionResult |-> er,
     applicationStatus |-> as, ok |-> ok]
NoReply == [op |-> "none"]

\* What the handler that answered broadcast to the SSE clients.  handle_run_jobs:
\* a failure of jobs.start() other than 'automation_already_running' broadcasts
\* jobs_stopped, 'all_jobs_completed' is broadcast; handle_stop_run_jobs
\* broadcasts jobs_stopped; handle_set_job_execution_result broadcasts nothing.
broadcast_sse(r) ==
    IF r.op = "stop" THEN "jobs_stopped"
    ELSE IF r.op # "start" \/ r.reason \in {"exception", "runner_already_active"} THEN "none"
    ELSE IF ~r.success
         THEN IF r.reason = "automation_already_running" THEN "none" ELSE "jobs_stopped"
         ELSE IF r.reason = "all_jobs_completed" THEN "all_jobs_completed" ELSE "none"

\* A step of thread t that returns nothing yet: t goes on as l.
Go(t, l) ==
    /\ th' = [th EXCEPT ![t] = l]
    /\ reply' = NoReply

\* run_next_job or set_execution_result returns {success, reason} to the HTTP
\* handler that called it, which answers; on_timeout drops the value and its
\* thread ends.
Return(t, success, reason) ==
    LET op == th[t].op IN
    /\ th' = [th EXCEPT ![t] = IF op = "timeout" THEN [Idle EXCEPT !.pc = "done", !.op = op]
                               ELSE Idle]
    /\ reply' = IF op = "timeout" THEN NoReply
                ELSE [op |-> op, success |-> success, reason |-> reason]

\* An exception leaves the handler (Flask answers 500) or kills the timer thread.
Escape(t) ==
    LET op == th[t].op IN
    /\ th' = [th EXCEPT ![t] = IF op = "timeout" THEN [Idle EXCEPT !.pc = "died", !.op = op]
                               ELSE Idle]
    /\ reply' = IF op = "timeout" THEN NoReply
                ELSE [op |-> op, success |-> FALSE, reason |-> "exception"]

\* ------------------------------------------------------------------- store
\* fetch_and_lock_next_job: the first row still pending, 0 when there is none.
NextPending ==
    IF \E j \in JobKeys : store[j] = "pending"
    THEN CHOOSE j \in JobKeys : /\ store[j] = "pending"
                                /\ \A i \in JobKeys : store[i] = "pending" => j <= i
    ELSE 0

\* upsert_job with update_database's force_update payload: the row's
\* executionResult is overwritten.  The row keeps whether it is pending,
\* processing (locked) or final (a result other than these two was written);
\* the payload itself is in rpc.
Upsert(s, k, er) ==
    [s EXCEPT ![k] = IF er \in {"pending", "processing"} THEN er ELSE "final"]

\* ------------------------------------------------------------ the watchdog
\* threading.Timer.cancel: a timer that has not fired yet never will; one whose
\* callback already runs is not affected.
TimerCancel_NoOp(tm, k) == tm
TimerCancel(tm, k) ==
    IF k # 0 /\ tm[k] = "live" THEN [tm EXCEPT ![k] = "cancelled"] ELSE tm

\* ---------------------------------------------------------------- Init
Init ==
    /\ FAILURE_ACTION \in ConfiguredFailureActions
    /\ is_automation_active = FALSE
    /\ current_job = 0
    /\ chain_enabled = FALSE
    /\ failure_count = 0
    /\ execution_timer = 0
    /\ timer = [j \in JobKeys |-> "none"]
    /\ store = [j \in JobKeys |-> "pending"]
    /\ th = [t \in Threads |-> Idle]
    /\ rpc = NoRpc
    /\ notified = FALSE
    /\ reply = NoReply
    /\ requests = 0

\* A request is served by a free thread of the pool; the free threads are
\* interchangeable, so it is the first of them.
Accepts(t) ==
    /\ t \in Requests
    /\ th[t].pc = "idle"
    /\ \A u \in Requests : u < t => th[u].pc # "idle"
    /\ requests < MaxRequests
    /\ requests' = requests + 1

\* ------------------------------------------------- the execution session
\* automation_controller.open_automation_session: an opened session marks the
\* automation active; a failed open leaves the flag as it was.
open_automation_session(ok, active) == IF ok THEN TRUE ELSE active
\* automation_controller.close_automation_session: no session is active after it.
close_automation_session(active) == FALSE

\* ------------------------------------------------------------ run_next_job
\* An exception raised inside run_next_job: set_execution_result catches it
\* (its call of run_next_job is inside the try), start() and on_timeout do not.
RnjRaise_Retry(t) ==
    /\ Go(t, [th[t] EXCEPT !.pc = "rnj_guard"])
    /\ UNCHANGED is_automation_active
    /\ notified' = FALSE
RnjRaise(t) ==
    IF th[t].op = "report"
    THEN /\ Return(t, FALSE, "fatal_error_setting_execution_result")
         /\ is_automation_active' = FALSE
         /\ notified' = PyEq(FAILURE_ACTION, FailureAction.ALERT_STOP)
    ELSE /\ Escape(t)
         /\ UNCHANGED is_automation_active
         /\ notified' = FALSE

\* POST /run-jobs: the handler's own look at the flag (409 when set), then
\* jobs.start().
HandleRunJobs(t) ==
    /\ Accepts(t)
    /\ IF is_automation_active
       THEN /\ reply' = [op |-> "start", success |-> FALSE, reason |-> "runner_already_active"]
            /\ UNCHANGED th
       ELSE /\ reply' = NoReply
            /\ th' = [th EXCEPT ![t] = [Idle EXCEPT !.pc = "rnj_guard", !.op = "start"]]
    /\ rpc' = NoRpc /\ notified' = FALSE
    /\ UNCHANGED <<FAILURE_ACTION, is_automation_active, current_job, chain_enabled,
                   failure_count, execution_timer, timer, store>>

\* while True: if automation_controller.is_automation_active: return ...
AlreadyRunning_Never(active) == FALSE
AlreadyRunning(active) == active

RnjGuard(t) ==
    /\ th[t].pc = "rnj_guard"
    /\ IF AlreadyRunning(is_automation_active)
       THEN Return(t, FALSE, "automation_already_running")
       ELSE Go(t, [th[t] EXCEPT !.pc = "rnj_fetch"])
    /\ rpc' = NoRpc /\ notified' = FALSE
    /\ UNCHANGED <<requests, FAILURE_ACTION, is_automation_active, current_job, chain_enabled,
                   failure_count, execution_timer, timer, store>>

\* job = fetch_and_lock_next_job(self.runner_id); if not job: return ...
\* raises: whether the RPC may raise; urls: whether the row has an applyUrl.
RnjFetch(t, raises, urls) ==
    /\ th[t].pc = "rnj_fetch"
    /\ \E raise \in raises :
         IF raise
         THEN /\ RnjRaise(t)
              /\ rpc' = NoRpc
              /\ UNCHANGED store
         ELSE LET j == NextPending IN
              /\ rpc' = FetchRpc(j)
              /\ notified' = FALSE
              /\ UNCHANGED is_automation_active
              /\ IF j = 0
                 THEN /\ Return(t, TRUE, "all_jobs_completed")
                      /\ UNCHANGED store
                 ELSE /\ store' = [store EXCEPT ![j] = "processing"]
                      /\ \E u \in urls :
                           Go(t, [th[t] EXCEPT !.pc = "rnj_lock", !.job = j, !.url = u])
    /\ UNCHANGED <<requests, FAILURE_ACTION, current_job, chain_enabled, failure_count,
                   execution_timer, timer>>

\* self.current_job = job, then _start_execution_timeout's first line,
\* _cancel_execution_timeout: "if self._execution_timer:".
RnjLock(t) ==
    /\ th[t].pc = "rnj_lock"
    /\ current_job' = th[t].job
    /\ Go(t, [th[t] EXCEPT !.pc = IF execution_timer # 0 THEN "rnj_cancel" ELSE "rnj_timer"])
    /\ rpc' = NoRpc /\ notified' = FALSE
    /\ UNCHANGED <<requests, FAILURE_ACTION, is_automation_active, chain_enabled, failure_count,
                   execution_timer, timer, store>>

\* self._execution_timer.cancel(); self._execution_timer = None.  The attribute
\* is read again: it is None when another thread cancelled in between.
RnjCancel(t) ==
    /\ th[t].pc = "rnj_cancel"
    /\ rpc' = NoRpc
    /\ IF execution_timer = 0
       THEN /\ RnjRaise(t)
            /\ UNCHANGED <<execution_timer, timer>>
       ELSE /\ timer' = TimerCancel(timer, execution_timer)
            /\ execution_timer' = 0
            /\ Go(t, [th[t] EXCEPT !.pc = "rnj_timer"])
            /\ notified' = FALSE
            /\ UNCHANGED is_automation_active
    /\ UNCHANGED <<requests, FAILURE_ACTION, current_job, chain_enabled, failure_count, store>>

\* The Timer is created and started; then the branch on apply_url, whose
\* else-part (no applyUrl) touches no I/O.
RnjTimer(t) ==
    LET l == th[t] IN
    /\ l.pc = "rnj_timer"
    /\ timer' = [timer EXCEPT ![l.job] = "live"]
    /\ execution_timer' = l.job
    /\ rpc' = NoRpc
    /\ IF l.url
       THEN /\ Go(t, [l EXCEPT !.pc = "rnj_open"])
            /\ notified' = FALSE
            /\ UNCHANGED <<is_automation_active, current_job>>
       ELSE IF PyEq(FAILURE_ACTION, FailureAction.CONTINUE)
            THEN /\ is_automation_active' = FALSE
                 /\ current_job' = 0
                 /\ Go(t, [l EXCEPT !.pc = "rnj_guard", !.job = 0, !.url = FALSE])
                 /\ notified' = FALSE
            ELSE /\ Return(t, FALSE, "job_without_applyurl_database_error")
                 /\ notified' = PyEq(FAILURE_ACTION, FailureAction.ALERT_STOP)
                 /\ UNCHANGED <<is_automation_active, current_job>>
    /\ UNCHANGED <<requests, FAILURE_ACTION, chain_enabled, failure_count, store>>

\* success = automation_controller.open_automation_session(apply_url); on
\* success self.chain_enabled = True and the return of 'started'.
RnjOpen(t, outcomes) ==
    LET l == th[t] IN
    /\ l.pc = "rnj_open"
    /\ rpc' = NoRpc /\ notified' = FALSE
    /\ \E ok \in outcomes :
         /\ is_automation_active' = open_automation_session(ok, is_automation_active)
         /\ IF ok
            THEN /\ chain_enabled' = TRUE
                 /\ Return(t, TRUE, "started")
            ELSE /\ Go(t, [l EXCEPT !.pc = "rnj_openfail"])
                 /\ UNCHANGED chain_enabled
    /\ UNCHANGED <<requests, FAILURE_ACTION, current_job, failure_count, execution_timer, timer, store>>

\* The failed open: the best-effort write of FAILED (try/except pass), then
\* the branch on the failure policy.
RnjOpenFail(t, outcomes) ==
    LET l == th[t] IN
    /\ l.pc = "rnj_openfail"
    /\ \E ok \in outcomes :
         /\ rpc' = UpsertRpc("open", l.job, "failed", "none", ok)
         /\ store' = IF ok THEN Upsert(store, l.job, "failed") ELSE store
    /\ IF PyEq(FAILURE_ACTION, FailureAction.CONTINUE)
       THEN /\ notified' = FALSE
            /\ IF l.fails + 1 >= MAX_SUBSEQUENT_RUN_JOBS_FAILURE_ALLOWED
               THEN /\ Return(t, FALSE, "faild_to_open_automation_session_with_retries")
                    /\ UNCHANGED <<is_automation_active, current_job>>
               ELSE /\ is_automation_active' = close_automation_session(is_automation_active)
                    /\ current_job' = 0
                    /\ Go(t, [l EXCEPT !.pc = "rnj_guard", !.fails = l.fails + 1,
                                       !.job = 0, !.url = FALSE])
       ELSE /\ is_automation_active' = FALSE
            /\ current_job' = 0
            /\ notified' = PyEq(FAILURE_ACTION, FailureAction.ALERT_STOP)
            /\ Return(t, FALSE, "faild_to_open_automation_session")
    /\ UNCHANGED <<requests, FAILURE_ACTION, chain_enabled, failure_count, execution_timer, timer>>

\* ---------------------------------------------------- set_execution_result
\* The value of an ExecutionResult / ApplicationStatus member, as stored.
EnumValue(member) ==
    CASE member = "PENDING" -> "pending"
      [] member = "PROCESSING" -> "processing"
      [] member = "JOB_EXPIRED" -> "job_expired"
      [] member = "UNSUPPORTED_PLATFORM" -> "unsupported_platform"
      [] member = "FAILED" -> "failed"
      [] member = "APPLIED" -> "applied"
      [] member = "INIT" -> "init"
      [] member = "IN_PROGRESS" -> "in_progress"
      [] OTHER -> "none"

\* The five ifs that choose execution_result and application_status; "none" is
\* Python's None.
ResultMapping_NoStatus(result) ==
    [execution_result |-> IF result = "PENDING" THEN "FAILED"
                          ELSE IF result = "PROCESSING" THEN "none" ELSE result,
     application_status |-> "none"]
ResultMapping(result) ==
    LET m0 == [execution_result |-> "none", application_status |-> "none"]
        m1 == IF result = "PENDING" THEN [m0 EXCEPT !.execution_result = "FAILED"] ELSE m0
        m2 == IF result = "JOB_EXPIRED"
              THEN [execution_result |-> "JOB_EXPIRED", application_status |-> "JOB_EXPIRED"] ELSE m1
        m3 == IF result = "UNSUPPORTED_PLATFORM"
              THEN [m2 EXCEPT !.execution_result = "UNSUPPORTED_PLATFORM"] ELSE m2
        m4 == IF result = "FAILED" THEN [m3 EXCEPT !.execution_result = "FAILED"] ELSE m3
        m5 == IF result = "APPLIED"
              THEN [execution_result |-> "APPLIED", application_status |-> "APPLIED"] ELSE m4
    IN m5

\* POST /set-job-execution-result: the body's result must be an ExecutionResult
\* value; then jobs.set_execution_result(result, id, ...).
HandleSetResult(t, results, keys) ==
    /\ Accepts(t)
    /\ \E r \in results, k \in keys :
         IF r \in ExecutionResult
         THEN /\ th' = [th EXCEPT ![t] = [Idle EXCEPT !.pc = "ser_key", !.op = "report",
                                                      !.result = r, !.key = k]]
              /\ reply' = NoReply
         ELSE /\ reply' = [op |-> "report", success |-> FALSE, reason |-> "invalid_json_body"]
              /\ UNCHANGED th
    /\ rpc' = NoRpc /\ notified' = FALSE
    /\ UNCHANGED <<FAILURE_ACTION, is_automation_active, current_job, chain_enabled,
                   failure_count, execution_timer, timer, store>>

\* if self.chain_enabled: key = self.current_job["key"]  (outside the try:
\* subscripting None raises TypeError out of the method).
FixKey_Caller(chain, job, key) == key
FixKey(chain, job, key) == IF chain THEN job ELSE key

SerKey(t) ==
    LET l == th[t] IN
    /\ l.pc = "ser_key"
    /\ IF chain_enabled /\ current_job = 0
       THEN Escape(t)
       ELSE Go(t, [l EXCEPT !.pc = "ser_orphan",
                            !.key = FixKey(chain_enabled, current_job, l.key)])
    /\ rpc' = NoRpc /\ notified' = FALSE
    /\ UNCHANGED <<requests, FAILURE_ACTION, is_automation_active, current_job, chain_enabled,
                   failure_count, execution_timer, timer, store>>

\* is_orphan = not self.chain_enabled
IsOrphan_Inverted(chain) == chain
IsOrphan(chain) == ~chain

\* if execution_failure_type: count += 1, else: count = 0
NextFailureCount_Increment(eft, count) == count + 1
NextFailureCount_Twice(eft, count) == IF eft THEN count + 2 ELSE 0
NextFailureCount(eft, count) == IF eft THEN count + 1 ELSE 0

\* "if self.chain_enabled:" before "return self.run_next_job()"
ContinuesChain_Never(chain) == FALSE
ContinuesChain(chain) == chain

\* A halt of set_execution_result: the flag and current_job are cleared.
SerHalt(t, reason) ==
    /\ is_automation_active' = FALSE
    /\ current_job' = 0
    /\ Return(t, FALSE, reason)

\* is_orphan = not self.chain_enabled; the two PENDING cases; then, for a
\* chained report, _cancel_execution_timeout's "if self._execution_timer:".
SerOrphan(t) ==
    LET l == th[t]
        is_orphan == IsOrphan(chain_enabled)
        go(e) == [l EXCEPT !.orphan = is_orphan, !.eft = e,
                           !.pc = IF ~is_orphan /\ execution_timer # 0
                                  THEN "ser_cancel" ELSE "ser_write"]
    IN
    /\ l.pc = "ser_orphan"
    /\ rpc' = NoRpc
    /\ IF l.result = "PENDING" /\ is_orphan
       THEN /\ is_automation_active' = FALSE
            /\ Return(t, TRUE, "orphan_pending_jobs_does_not_need_initialization")
            /\ notified' = FALSE
            /\ UNCHANGED current_job
       ELSE IF ~is_orphan /\ l.result = "PENDING"
            THEN IF PyEq(FAILURE_ACTION, FailureAction.CONTINUE)
                 THEN /\ notified' = FALSE
                      /\ IF failure_count > MAX_SUBSEQUENT_EXECUTION_FAILURES_ALLOWED
                         THEN SerHalt(t, "pending_not_allowed_for_active_chain")
                         ELSE /\ Go(t, go(TRUE))
                              /\ UNCHANGED <<is_automation_active, current_job>>
                 ELSE /\ SerHalt(t, "pending_not_allowed_for_active_chain")
                      /\ notified' = PyEq(FAILURE_ACTION, FailureAction.ALERT_STOP)
            ELSE /\ Go(t, go(FALSE))
                 /\ notified' = FALSE
                 /\ UNCHANGED <<is_automation_active, current_job>>
    /\ UNCHANGED <<requests, FAILURE_ACTION, chain_enabled, failure_count, execution_timer, timer, store>>

\* self._execution_timer.cancel(); self._execution_timer = None  (outside the
\* try: None has no cancel when another thread cancelled in between).
SerCancel(t) ==
    LET l == th[t] IN
    /\ l.pc = "ser_cancel"
    /\ IF execution_timer = 0
       THEN /\ Escape(t)
            /\ UNCHANGED <<execution_timer, timer>>
       ELSE /\ timer' = TimerCancel(timer, execution_timer)
            /\ execution_timer' = 0
            /\ Go(t, [l EXCEPT !.pc = "ser_write"])
    /\ rpc' = NoRpc /\ notified' = FALSE
    /\ UNCHANGED <<requests, FAILURE_ACTION, is_automation_active, current_job, chain_enabled,
                   failure_count, store>>

\* A failed or impossible write: the branch on the failure policy.
SerFailure(t, reason) ==
    IF PyEq(FAILURE_ACTION, FailureAction.CONTINUE)
    THEN /\ notified' = FALSE
         /\ IF failure_count > MAX_SUBSEQUENT_EXECUTION_FAILURES_ALLOWED
            THEN SerHalt(t, reason)
            ELSE /\ Go(t, [th[t] EXCEPT !.pc = "ser_ui", !.eft = TRUE, !.result = "none"])
                 /\ UNCHANGED <<is_automation_active, current_job>>
    ELSE /\ SerHalt(t, reason)
         /\ notified' = PyEq(FAILURE_ACTION, FailureAction.ALERT_STOP)

\* The mapping of the result, and update_database under the key.
SerWrite(t, outcomes) ==
    LET l == th[t]
        m == ResultMapping(l.result)
        er == EnumValue(m.execution_result)
        as == EnumValue(m.application_status)
    IN
    /\ l.pc = "ser_write"
    /\ IF m.execution_result # "none"
       THEN \E ok \in outcomes :
              /\ rpc' = UpsertRpc("report", l.key, er, as, ok)
              /\ IF ok
                 THEN /\ store' = Upsert(store, l.key, er)
                      /\ Go(t, [l EXCEPT !.pc = "ser_ui", !.result = "none"])
                      /\ notified' = FALSE
                      /\ UNCHANGED <<is_automation_active, current_job>>
                 ELSE /\ SerFailure(t, "database_updation_failure")
                      /\ UNCHANGED store
       ELSE /\ rpc' = NoRpc
            /\ SerFailure(t, "invalid_execution_result")
            /\ UNCHANGED store
    /\ UNCHANGED <<requests, FAILURE_ACTION, chain_enabled, failure_count, execution_timer, timer>>

\* The sessions are closed; an orphan report ends here, a chained one releases
\* current_job and, when the chain is enabled, sets the counter and calls
\* run_next_job.
SerUi(t) ==
    LET l == th[t] IN
    /\ l.pc = "ser_ui"
    /\ rpc' = NoRpc /\ notified' = FALSE
    /\ IF l.orphan
       THEN /\ is_automation_active' = FALSE
            /\ Return(t, TRUE, "oprhan_job_execution_complete")
            /\ UNCHANGED <<current_job, failure_count>>
       ELSE /\ is_automation_active' = close_automation_session(is_automation_active)
            /\ current_job' = 0
            /\ IF ContinuesChain(chain_enabled)
               THEN /\ failure_count' = NextFailureCount(l.eft, failure_count)
                    /\ Go(t, [Idle EXCEPT !.pc = "rnj_guard", !.op = "report", !.key = l.key])
               ELSE /\ Return(t, TRUE, "disabled_chain_ended_execution")
                    /\ UNCHANGED failure_count
    /\ UNCHANGED <<requests, FAILURE_ACTION, chain_enabled, execution_timer, timer, store>>

\* POST /stop-run-jobs.
HandleStop(t) ==
    /\ Accepts(t)
    /\ chain_enabled' = FALSE
    /\ reply' = [op |-> "stop", success |-> TRUE, reason |-> "none"]
    /\ rpc' = NoRpc /\ notified' = FALSE
    /\ UNCHANGED <<FAILURE_ACTION, is_automation_active, current_job, failure_count,
                   execution_timer, timer, store, th>>

\* ------------------------------------------------------------- on_timeout
\* The Timer's interval passes before any cancel and its thread runs on_timeout:
\* try: update_database(job_key, execution_result=FAILED,
\* application_status=ApplicationStatus.FAILED) except Exception.  The argument
\* is evaluated before the call, and naming a member the enum lacks raises
\* AttributeError, which the except swallows.
TimerFire(j, outcomes) ==
    /\ timer[j] = "live"
    /\ timer' = [timer EXCEPT ![j] = "fired"]
    /\ IF "FAILED" \in ApplicationStatus
       THEN \E ok \in outcomes :
              /\ rpc' = UpsertRpc("timeout", j, "failed", "failed", ok)
              /\ store' = IF ok THEN Upsert(store, j, "failed") ELSE store
       ELSE /\ rpc' = NoRpc
            /\ UNCHANGED store
    /\ Go(TimerThread(j), [Idle EXCEPT !.pc = "to_close", !.op = "timeout"])
    /\ notified' = FALSE
    /\ UNCHANGED <<requests, FAILURE_ACTION, is_automation_active, current_job, chain_enabled,
                   failure_count, execution_timer>>

\* The sessions are closed, current_job is cleared, and the chain goes on when
\* it is enabled.
ToClose(t) ==
    LET l == th[t] IN
    /\ l.pc = "to_close"
    /\ is_automation_active' = close_automation_session(is_automation_active)
    /\ current_job' = 0
    /\ IF chain_enabled THEN Go(t, [l EXCEPT !.pc = "rnj_guard"])
       ELSE Return(t, TRUE, "none")
    /\ rpc' = NoRpc /\ notified' = FALSE
    /\ UNCHANGED <<requests, FAILURE_ACTION, chain_enabled, failure_count, execution_timer, timer, store>>

\* ------------------------------------------------------------------- Spec
ReportTokens == ExecutionResult \cup {"BOGUS"}

Next ==
    \/ \E t \in Requests : HandleRunJobs(t)
    \/ \E t \in Threads : RnjGuard(t)
    \/ \E t \in Threads : RnjFetch(t, BOOLEAN, BOOLEAN)
    \/ \E t \in Threads : RnjLock(t)
    \/ \E t \in Threads : RnjCancel(t)
    \/ \E t \in Threads : RnjTimer(t)
    \/ \E t \in Threads : RnjOpen(t, BOOLEAN)
    \/ \E t \in Threads : RnjOpenFail(t, BOOLEAN)
    \/ \E t \in Requests : HandleSetResult(t, ReportTokens, JobKeys)
    \/ \E t \in Requests : SerKey(t)
    \/ \E t \in Requests : SerOrphan(t)
    \/ \E t \in Requests : SerCancel(t)
    \/ \E t \in Requests : SerWrite(t, BOOLEAN)
    \/ \E t \in Requests : SerUi(t)
    \/ \E t \in Requests : HandleStop(t)
    \/ \E j \in JobKeys : TimerFire(j, BOOLEAN)
    \/ \E t \in TimerThreads : ToClose(t)

Spec == Init /\ [][Next]_vars

\* The run of the queue-drain scenario: one start, then one report at a time,
\* each a valid result other than PENDING; every row has an applyUrl, every
\* session opens, every store call succeeds and no watchdog fires.
DrainResults == {"JOB_EXPIRED", "UNSUPPORTED_PLATFORM", "FAILED", "APPLIED"}

DrainNext ==
    \/ requests = 0 /\ HandleRunJobs(1)
    \/ RnjGuard(1)
    \/ RnjFetch(1, {FALSE}, {TRUE})
    \/ RnjLock(1)
    \/ RnjTimer(1)
    \/ RnjOpen(1, {TRUE})
    \/ requests > 0 /\ HandleSetResult(1, DrainResults, JobKeys)
    \/ SerKey(1)
    \/ SerOrphan(1)
    \/ SerCancel(1)
    \/ SerWrite(1, {TRUE})
    \/ SerUi(1)

DrainSpec == Init /\ [][DrainNext]_vars

\* ------------------------------------------------------ watchdog duration
\* The labels hostnames are made of; a hostname is the sequence of its labels.
Labels == {"x", "www", "workday", "myworkdayjobs", "MyWorkdaySite", "myworkdaysite",
           "greenhouse", "lever", "com", "io", "co"}
Hostnames == UNION {[1..n -> Labels] : n \in 1..MaxLabels}
\* An applyUrl: a falsy value (None or the empty string), or a URL with or
\* without its scheme ("https://host/j" or "host/j").
NoUrl == [present |-> FALSE, scheme |-> FALSE, host |-> <<>>]
ApplyUrls == {NoUrl} \cup [present : {TRUE}, scheme : BOOLEAN, host : Hostnames]

\* str.lower() of one label.
Lower(label) == IF label = "MyWorkdaySite" THEN "myworkdaysite" ELSE label
\* urlparse(apply_url).hostname or "": the lower-cased host of the netloc; a
\* URL without "//" has no netloc, and the empty hostname has no label.
Hostname(apply_url) ==
    IF apply_url.scheme
    THEN [i \in DOMAIN apply_url.host |-> Lower(apply_url.host[i])]
    ELSE <<>>

\* The three compiled patterns, each the set of label suffixes it matches
\* after a dot, with its timeout.
PLATFORM_TIMEOUTS ==
    << [pattern |-> {<<"myworkdayjobs", "com">>, <<"myworkdaysite", "com">>}, timeout |-> 8 * 60],
       [pattern |-> {<<"greenhouse", "io">>}, timeout |-> 8 * 60],
       [pattern |-> {<<"lever", "co">>}, timeout |-> 6 * 60] >>

\* pattern.search(hostname) for a pattern "\.<suffix>$" with re.I: the
\* hostname ends with the suffix and a dot precedes it.
Search_NoDot(pattern, hostname) ==
    \E suffix \in pattern :
        /\ Len(hostname) >= Len(suffix)
        /\ SubSeq(hostname, Len(hostname) - Len(suffix) + 1, Len(hostname)) = suffix
Search(pattern, hostname) ==
    \E suffix \in pattern :
        /\ Len(hostname) > Len(suffix)
        /\ SubSeq(hostname, Len(hostname) - Len(suffix) + 1, Len(hostname)) = suffix

resolve_job_timeout(apply_url) ==
    IF ~apply_url.present
    THEN DEFAULT_JOB_TIMEOUT
    ELSE LET hostname == Hostname(apply_url)
             hits == {i \in DOMAIN PLATFORM_TIMEOUTS :
                         Search(PLATFORM_TIMEOUTS[i].pattern, hostname)}
         IN  IF hits = {}
             THEN DEFAULT_JOB_TIMEOUT
             ELSE PLATFORM_TIMEOUTS[CHOOSE i \in hits : \A k \in hits : i <= k].timeout

\* run_next_job right after fetch_and_lock_next_job returned job 1, for every
\* applyUrl the row can carry.
TimeoutInit ==
    /\ FAILURE_ACTION \in ConfiguredFailureActions
    /\ is_automation_active = FALSE
    /\ current_job = 0
    /\ chain_enabled = FALSE
    /\ failure_count = 0
    /\ execution_timer = 0
    /\ timer = [j \in JobKeys |-> "none"]
    /\ store = [j \in JobKeys |-> IF j = 1 THEN "processing" ELSE "pending"]
    /\ \E u \in ApplyUrls :
          th = [t \in Threads |->
                  IF t = 1
                  THEN [Idle EXCEPT !.pc = "rnj_lock", !.op = "start", !.job = 1, !.url = u]
                  ELSE Idle]
    /\ rpc = FetchRpc(1)
    /\ notified = FALSE
    /\ reply = NoReply
    /\ requests = 1

\* self.current_job = job; timeout = resolve_job_timeout(apply_url);
\* self._start_execution_timeout(job["key"], timeout): the timer object keeps
\* its interval.
StartWatchdog(t) ==
    /\ th[t].pc = "rnj_lock"
    /\ current_job' = th[t].job
    /\ execution_timer' = [key |-> th[t].job, interval |-> resolve_job_timeout(th[t].url)]
    /\ timer' = [timer EXCEPT ![th[t].job] = "live"]
    /\ th' = [th EXCEPT ![t].pc = "rnj_open"]
    /\ rpc' = NoRpc
    /\ UNCHANGED <<FAILURE_ACTION, is_automation_active, chain_enabled, failure_count,
                   store, notified, reply, requests>>

TimeoutNext == \E t \in Requests : StartWatchdog(t)

TimeoutSpec == TimeoutInit /\ [][TimeoutNext]_vars

\* ------------------------------------------------------------- mid-chain
\* A chain that runs since an earlier start(): the report of its previous job
\* was finalized (SerUi: session closed, current_job released, watchdog
\* cancelled) and its thread is about to call run_next_job; the rows of JobKeys
\* are the ones still pending.
MidChainInit ==
    /\ FAILURE_ACTION \in ConfiguredFailureActions
    /\ is_automation_active = FALSE
    /\ current_job = 0
    /\ chain_enabled = TRUE
    /\ failure_count = 0
    /\ execution_timer = 0
    /\ timer = [j \in JobKeys |-> "none"]
    /\ store = [j \in JobKeys |-> "pending"]
    /\ th = [t \in Threads |->
                IF t = 1 THEN [Idle EXCEPT !.pc = "rnj_guard", !.op = "report"] ELSE Idle]
    /\ rpc = NoRpc
    /\ notified = FALSE
    /\ reply = NoReply
    /\ requests = 2

\* The chain goes on with no further POST /run-jobs: run_next_job in the
\* report's thread and in the watchdogs' threads, every row with an applyUrl,
\* the store reachable when a job is fetched.
MidChainNext ==
    \/ \E t \in Threads : RnjGuard(t)
    \/ \E t \in Threads : RnjFetch(t, {FALSE}, {TRUE})
    \/ \E t \in Threads : RnjLock(t)
    \/ \E t \in Threads : RnjCancel(t)
    \/ \E t \in Threads : RnjTimer(t)
    \/ \E t \in Threads : RnjOpen(t, BOOLEAN)
    \/ \E t \in Threads : RnjOpenFail(t, BOOLEAN)
    \/ \E j \in JobKeys : TimerFire(j, BOOLEAN)
    \/ \E t \in TimerThreads : ToClose(t)

MidChainSpec == MidChainInit /\ [][MidChainNext]_vars

\* ------------------------------------------------------------ fair runs
\* The steps of run_next_job called by start(), one call at a time, for every
\* pattern of store failures, missing applyUrls and failed session opens.
RunStep ==
    \/ RnjGuard(1)
    \/ RnjFetch(1, BOOLEAN, BOOLEAN)
    \/ RnjLock(1)
    \/ RnjCancel(1)
    \/ RnjTimer(1)
    \/ RnjOpen(1, BOOLEAN)
    \/ RnjOpenFail(1, BOOLEAN)

RunNext ==
    \/ HandleRunJobs(1)
    \/ RunStep

\* The thread of a request is scheduled again and again, and each call it
\* makes (the store RPCs have a timeout, the session open answers) comes back:
\* a step of run_next_job that can be taken is taken.  Requests arrive or not.
RunSpec == Init /\ [][RunNext]_vars /\ WF_vars(RunStep)

\* ------------------------------------------------------------------ claims
\* The positions of run_next_job past its guard.
PastGuard == {"rnj_fetch", "rnj_lock", "rnj_cancel", "rnj_timer", "rnj_open", "rnj_openfail"}
Running(t) == th[t].pc \notin {"idle", "done", "died"}
\* A job that was locked and is neither finalized nor timed out.
Unfinalized(j) == j # 0 /\ store[j] = "processing" /\ timer[j] # "fired"
\* The step is one of thread t.
StepOf(t) == th'[t] # th[t]
\* The table of section 4.3: reported result -> <<executionResult, applicationStatus>>
\* written, "none" for a field the write leaves out.
MappingTable ==
    [PENDING |-> <<"failed", "none">>,
     JOB_EXPIRED |-> <<"job_expired", "job_expired">>,
     UNSUPPORTED_PLATFORM |-> <<"unsupported_platform", "none">>,
     FAILED |-> <<"failed", "none">>,
     APPLIED |-> <<"applied", "applied">>]

\* C1: of the start() calls that run at once, at most one fetch-and-locks a
\* job; no two of them hold a job each.
C1_StartMutualExclusion ==
    \A t, u \in Requests :
        (t # u /\ th[t].op = "start" /\ th[u].op = "start")
            => ~(th[t].job # 0 /\ th[u].job # 0)

\* C2: fetch_and_lock_next_job is never invoked while a previously claimed job
\* is still current (current_job set, not finalized, not timed out); stated for
\* the runs in which the fetching call is the only one in progress.
C2_OneActiveLease ==
    ~(/\ rpc.op = "fetch"
      /\ Unfinalized(current_job)
      /\ Cardinality({t \in Threads : Running(t)}) <= 1)

\* C3: no job is left stuck in processing: the watchdog fire is one of the
\* paths that give a locked job its terminal write, so once the watchdog of a
\* job has fired and its callback is past its store call, the row is not
\* processing any more.
C3_NoStuckProcessing ==
    \A j \in JobKeys : timer[j] = "fired" => store[j] # "processing"

\* C4: queue drain.  Request k+1 is the k-th report: it claims no job twice
\* (the k-th request locks row k), it writes the mapped result of what was
\* reported under the claimed job's key, and it answers all_jobs_completed
\* exactly when it is the NumJobs-th report, "started" before.
C4_DrainConvergence ==
    /\ [](/\ (rpc.op = "fetch" /\ rpc.got # 0) => rpc.got = requests
          /\ (rpc.op = "fetch" /\ rpc.got = 0) => requests = NumJobs + 1
          /\ reply.op = "report" =>
                /\ reply.success
                /\ reply.reason = (IF requests = NumJobs + 1 THEN "all_jobs_completed" ELSE "started")
                /\ \A j \in JobKeys : j < requests => store[j] = "final"
          /\ reply.op = "start" => reply.success /\ reply.reason = "started")
    /\ [][\A t \in Requests :
            (th[t].pc = "ser_write" /\ StepOf(t)) =>
                rpc' = [op |-> "upsert", path |-> "report", key |-> current_job,
                        executionResult |-> MappingTable[th[t].result][1],
                        applicationStatus |-> MappingTable[th[t].result][2], ok |-> TRUE]]_vars

\* C4's case: the last report of a drained queue has answered.
C4_Witness ==
    /\ reply.op = "report" /\ reply.reason = "all_jobs_completed"
    /\ requests = NumJobs + 1
    /\ \A j \in JobKeys : store[j] = "final"

\* C5: when the watchdog callback of a job and the report for the same job
\* race, at most one of them releases the lease and goes on to claim the next
\* job.
C5_SingleConsumer ==
    \A j \in JobKeys, t \in Requests :
        ~(/\ th[t].op = "report" /\ th[t].key = j /\ th[t].pc \in PastGuard
          /\ th[TimerThread(j)].pc \in PastGuard)

\* C6: what set_execution_result computes for a reported result, and what it
\* writes, is the row of the table; a result outside the table (PROCESSING)
\* writes nothing and is handled as invalid, and a token that is no
\* ExecutionResult is rejected before any write.
C6_ResultMapping ==
    /\ [](/\ \A t \in Requests :
                th[t].result \in DOMAIN MappingTable =>
                    <<EnumValue(ResultMapping(th[t].result).execution_result),
                      EnumValue(ResultMapping(th[t].result).application_status)>>
                        = MappingTable[th[t].result]
          /\ reply.op # "none" /\ reply.reason = "invalid_json_body" => rpc = NoRpc)
    /\ [][\A t \in Requests :
            (th[t].pc = "ser_write" /\ StepOf(t)) =>
                IF th[t].result \in DOMAIN MappingTable
                THEN /\ rpc'.op = "upsert" /\ rpc'.path = "report"
                     /\ rpc'.key = th[t].key
                     /\ rpc'.executionResult = MappingTable[th[t].result][1]
                     /\ rpc'.applicationStatus = MappingTable[th[t].result][2]
                ELSE /\ rpc' = NoRpc /\ store' = store
                     /\ reply'.op = "report" /\ ~reply'.success
                     /\ reply'.reason = "invalid_execution_result"]_vars

\* C6's case: a JOB_EXPIRED report has been written.
C6_Witness ==
    /\ rpc.op = "upsert" /\ rpc.path = "report" /\ rpc.ok
    /\ rpc.executionResult = "job_expired" /\ rpc.applicationStatus = "job_expired"

\* C7: under CONTINUE a failing set_execution_result call returns its failure
\* only as the (MAX_SUBSEQUENT_EXECUTION_FAILURES_ALLOWED + 1)-th of a run of
\* failures, that is with MAX_SUBSEQUENT_EXECUTION_FAILURES_ALLOWED failures
\* counted before it.
C7_ContinueCeiling ==
    (/\ FAILURE_ACTION = Str("CONTINUE")
     /\ reply.op = "report" /\ ~reply.success
     /\ reply.reason \in {"pending_not_allowed_for_active_chain", "invalid_execution_result",
                          "database_updation_failure"})
        => failure_count = MAX_SUBSEQUENT_EXECUTION_FAILURES_ALLOWED

\* C8: a chained report that ends its finalization cleanly (valid result
\* written, no swallowed failure) leaves the counter at 0; the counter changes
\* only to 0 or by exactly +1, the latter only in a report that swallowed a
\* failure.  The update itself sends every count to 0 on a clean success and
\* to count + 1 after a swallowed failure.
C8_CounterReset ==
    /\ [](\A c \in 0..(MAX_SUBSEQUENT_EXECUTION_FAILURES_ALLOWED + 1) :
            NextFailureCount(FALSE, c) = 0 /\ NextFailureCount(TRUE, c) = c + 1)
    /\ [][/\ \A t \in Requests :
               (th[t].pc = "ser_ui" /\ StepOf(t) /\ ~th[t].orphan /\ ~th[t].eft)
                   => failure_count' = 0
          /\ failure_count' # failure_count =>
               \/ failure_count' = 0
               \/ /\ failure_count' = failure_count + 1
                  /\ \E t \in Requests : th[t].pc = "ser_ui" /\ StepOf(t) /\ th[t].eft]_vars

\* C8's case: a chained report has finalized cleanly and goes on to the next job.
C8_Witness ==
    \E t \in Requests :
        /\ th[t].op = "report" /\ th[t].pc = "rnj_guard"
        /\ store[th[t].key] = "final"
        /\ failure_count = 0

\* C9: a PENDING report that finds chain_enabled false makes no store call,
\* clears the active flag, starts no job (no lease, no watchdog, no call of
\* run_next_job) and returns success.
C9_OrphanIsolation ==
    [][\A t \in Requests :
            (th[t].pc = "ser_orphan" /\ th[t].result = "PENDING" /\ ~chain_enabled /\ StepOf(t))
                => /\ rpc' = NoRpc /\ store' = store
                   /\ is_automation_active' = FALSE
                   /\ th'[t].pc = "idle"
                   /\ current_job' = current_job /\ timer' = timer
                   /\ execution_timer' = execution_timer
                   /\ reply'.op = "report" /\ reply'.success]_vars

\* C9's case: an orphan PENDING report has returned.
C9_Witness ==
    /\ reply.op = "report"
    /\ reply.reason = "orphan_pending_jobs_does_not_need_initialization"
    /\ ~chain_enabled

\* C10: _cancel_execution_timeout with no timer (also right after a cancel)
\* raises nothing and changes no timer; a cancel leaves _execution_timer None
\* and the timer it held not live; a cancelled timer never runs its callback
\* and a fired one never fires again.
C10_IdempotentCancel ==
    [][/\ \A t \in Threads :
            /\ (th[t].pc = "rnj_lock" /\ execution_timer = 0 /\ StepOf(t))
                  => th'[t].pc = "rnj_timer" /\ execution_timer' = 0 /\ timer' = timer
            /\ (th[t].pc = "ser_orphan" /\ execution_timer = 0 /\ StepOf(t))
                  => reply'.op = "none" \/ reply'.reason # "exception"
            /\ (th[t].pc = "ser_orphan" /\ execution_timer = 0 /\ StepOf(t))
                  => execution_timer' = 0 /\ timer' = timer
            /\ (th[t].pc \in {"rnj_cancel", "ser_cancel"} /\ execution_timer # 0 /\ StepOf(t))
                  => /\ execution_timer' = 0
                     /\ timer'[execution_timer] # "live"
                     /\ (\A j \in JobKeys : timer[j] = "live" => j = execution_timer)
                            => \A j \in JobKeys : timer'[j] # "live"
                     /\ th'[t].pc \in {"rnj_timer", "ser_write"}
       /\ \A j \in JobKeys :
            /\ timer[j] = "cancelled" =>
                  timer'[j] = "cancelled" /\ th'[TimerThread(j)].pc = "idle"
            /\ timer[j] = "fired" => timer'[j] = "fired"]_vars

\* C10's case: a second cancel in a row (the report cancelled the watchdog,
\* then run_next_job's own cancel found none) has run.
C10_Witness ==
    \E t \in Requests, j \in JobKeys :
        /\ th[t].op = "report" /\ th[t].pc = "rnj_timer"
        /\ timer[j] = "cancelled" /\ execution_timer = 0

\* https://x.workday.com/j
WorkdayUrl == [present |-> TRUE, scheme |-> TRUE, host |-> <<"x", "workday", "com">>]

\* C11: for a claimed job whose applyUrl is https://x.workday.com/j the
\* watchdog is started with a duration of 480 seconds.
C11_WorkdayTimeout ==
    \A t \in Requests :
        (th[t].pc = "rnj_open" /\ th[t].url = WorkdayUrl)
            => execution_timer.interval = 480

\* C12: under CONTINUE a claimed job without applyUrl is skipped and
\* run_next_job goes on to the next job: no start or report is answered with
\* the missing-applyUrl failure.
C12_MissingTargetSkip ==
    FAILURE_ACTION = Str("CONTINUE")
        => ~(reply.op # "none" /\ reply.reason = "job_without_applyurl_database_error")

\* The reasons of the failures run_next_job and set_execution_result return,
\* automation_already_running apart.
HaltReasons ==
    {"job_without_applyurl_database_error", "faild_to_open_automation_session",
     "faild_to_open_automation_session_with_retries",
     "pending_not_allowed_for_active_chain", "invalid_execution_result",
     "database_updation_failure", "fatal_error_setting_execution_result"}

\* C13: when run_next_job or set_execution_result has returned a failure other
\* than automation_already_running, the active flag is false.
C13_HaltReenablesStart ==
    (reply.op \in {"start", "report"} /\ ~reply.success /\ reply.reason \in HaltReasons)
        => ~is_automation_active

\* C14: no exception leaves set_execution_result: a report is never answered
\* by the exception itself.
C14_NoEscape ==
    ~(reply.op = "report" /\ reply.reason = "exception")

\* The positions of set_execution_result between the key fix and the write.
KeyHeld == {"ser_orphan", "ser_cancel", "ser_write"}

\* C15: the key fix takes current_job's key when the chain is enabled and the
\* caller's key otherwise, the key is kept up to the write, set_execution_result
\* writes only at its write step, and that write is keyed by it.
C15_KeyRule ==
    [][/\ \A t \in Requests :
            /\ (th[t].pc = "ser_key" /\ th'[t].pc = "ser_orphan")
                  => th'[t].key = (IF chain_enabled THEN current_job ELSE th[t].key)
            /\ (th[t].pc \in KeyHeld /\ th'[t].pc \in KeyHeld)
                  => th'[t].key = th[t].key
            /\ (th[t].pc = "ser_write" /\ StepOf(t) /\ rpc'.op = "upsert")
                  => rpc'.path = "report" /\ rpc'.key = th[t].key
       /\ (rpc'.op = "upsert" /\ rpc'.path = "report")
            => \E t \in Requests : th[t].pc = "ser_write" /\ StepOf(t)]_vars

\* C15's case: a chained report has written under the key taken from current_job.
C15_Witness ==
    \E t \in Requests :
        /\ th[t].pc = "ser_ui" /\ ~th[t].orphan
        /\ rpc.op = "upsert" /\ rpc.path = "report" /\ rpc.key = th[t].key

\* C16: once chain_enabled is false no job is fetch-and-locked by
\* auto-continuation: a report or a watchdog callback never fetches with the
\* chain disabled.
C16_CooperativeStop ==
    \A t \in Threads :
        (rpc.op = "fetch" /\ th[t].pc = "rnj_lock" /\ th[t].op \in {"report", "timeout"})
            => chain_enabled

\* C17: a start request that finds the active flag set, in the handler or at
\* run_next_job's guard, is answered with the failure and changes neither
\* current_job, chain_enabled, the failure counter, the watchdog nor the
\* store, and makes no store call.
C17_ContentionNoChange ==
    [][/\ \A t \in Requests :
            (th[t].pc = "rnj_guard" /\ th[t].op = "start" /\ is_automation_active /\ StepOf(t))
                => /\ UNCHANGED <<current_job, chain_enabled, failure_count, execution_timer,
                                  timer, store, is_automation_active>>
                   /\ rpc' = NoRpc
                   /\ th'[t] = Idle
                   /\ reply' = [op |-> "start", success |-> FALSE,
                                reason |-> "automation_already_running"]
       /\ (requests' # requests /\ is_automation_active /\ reply'.op = "start")
                => /\ UNCHANGED <<current_job, chain_enabled, failure_count, execution_timer,
                                  timer, store, is_automation_active, th>>
                   /\ rpc' = NoRpc
                   /\ reply' = [op |-> "start", success |-> FALSE,
                                reason |-> "runner_already_active"]]_vars

\* C17's case: a start has been turned away at run_next_job's guard.
C17_Witness ==
    /\ reply.op = "start" /\ reply.reason = "automation_already_running"
    /\ is_automation_active

\* C18: every return of all_jobs_completed, to a start or to a report,
\* publishes the all_jobs_completed event.
C18_DrainEvent ==
    (reply.op # "none" /\ reply.reason = "all_jobs_completed")
        => broadcast_sse(reply) = "all_jobs_completed"

\* C19: a hard stop returned by run_next_job or set_execution_result has
\* invoked the notifier exactly when the policy is ALERT_STOP.
C19_NotifierPolicy ==
    (reply.op \in {"start", "report"} /\ ~reply.success /\ reply.reason \in HaltReasons)
        => (notified <=> FAILURE_ACTION = Str("ALERT_STOP"))

\* C20: a fetch_and_lock_next_job that raises ends its run_next_job at once:
\* the step locks no row, opens no session, starts no watchdog and writes
\* nothing, the exception reaches the caller (the request handler, the except
\* of set_execution_result, or the top of the timer thread), and a thread it
\* killed never runs again.
C20_FetchFailureFatal ==
    [][\A t \in Threads :
            /\ (th[t].pc = "rnj_fetch" /\ StepOf(t) /\ rpc' = NoRpc)
                  => /\ UNCHANGED <<store, timer, execution_timer, current_job, chain_enabled>>
                     /\ th'[t].pc \in {"idle", "died"}
                     /\ th[t].op = "start"
                           => reply' = [op |-> "start", success |-> FALSE, reason |-> "exception"]
                     /\ th[t].op = "report"
                           => reply' = [op |-> "report", success |-> FALSE,
                                        reason |-> "fatal_error_setting_execution_result"]
                     /\ th[t].op = "timeout" => th'[t].pc = "died"
            /\ th[t].pc = "died" => th'[t] = th[t]]_vars

\* C20's case: the fetch of a first start has raised (no watchdog was ever
\* started, so nothing else can have raised).
C20_Witness ==
    /\ reply.op = "start" /\ reply.reason = "exception"
    /\ \A j \in JobKeys : timer[j] = "none" /\ store[j] = "pending"

\* The last two labels of a hostname of three labels or more, lower-cased;
\* <<>> for a shorter one.
Domain(host) ==
    IF Len(host) < 3 THEN <<>>
    ELSE <<Lower(host[Len(host) - 1]), Lower(host[Len(host)])>>

\* The rules in their order: a subdomain of myworkdayjobs.com or
\* myworkdaysite.com 480 s, of greenhouse.io 480 s, of lever.co 360 s, and
\* 300 s for every other applyUrl, for one without hostname and for none.
RuleTimeout(u) ==
    IF ~u.present \/ ~u.scheme THEN 300
    ELSE IF Domain(u.host) \in {<<"myworkdayjobs", "com">>, <<"myworkdaysite", "com">>} THEN 480
    ELSE IF Domain(u.host) = <<"greenhouse", "io">> THEN 480
    ELSE IF Domain(u.host) = <<"lever", "co">> THEN 360
    ELSE 300

\* C21: resolve_job_timeout gives every applyUrl the duration of the first
\* rule its hostname matches, and the default of 300 s when none matches, when
\* the URL has no hostname and when the applyUrl is empty or absent.
C21_TimeoutRules ==
    \A t \in Requests :
        th[t].pc = "rnj_open" => execution_timer.interval = RuleTimeout(th[t].url)

\* C21's case: the watchdog of a Workday-hosted job has been started with the
\* duration of the first rule.
C21_Witness ==
    \E t \in Requests :
        /\ th[t].pc = "rnj_open"
        /\ th[t].url = [present |-> TRUE, scheme |-> TRUE,
                        host |-> <<"x", "MyWorkdaySite", "com">>]
        /\ execution_timer.interval = 480

\* C22: at most one watchdog timer is live at a time.
C22_SingleWatchdog ==
    Cardinality({j \in JobKeys : timer[j] = "live"}) <= 1

\* C23: the step in which the watchdog of a job fires issues the store write
\* that records executionResult = failed under that job's key.
C23_TimeoutPersistence ==
    [][\A j \in JobKeys :
            (timer[j] = "live" /\ timer'[j] = "fired")
                => /\ rpc'.op = "upsert" /\ rpc'.path = "timeout"
                   /\ rpc'.key = j /\ rpc'.executionResult = "failed"]_vars

\* C24: the watchdog callback never ends by an exception.
C24_TimeoutNeverThrows ==
    \A t \in TimerThreads : th[t].pc # "died"

\* C25: the watchdog callback releases the session and clears current_job,
\* calls run_next_job exactly when chain_enabled is true at that moment, and
\* that call passes the active-flag guard.
C25_TimeoutContinuation ==
    [][\A t \in TimerThreads :
            /\ (th[t].pc = "to_close" /\ StepOf(t))
                  => /\ is_automation_active' = FALSE
                     /\ current_job' = 0
                     /\ th'[t].pc = "rnj_guard" <=> chain_enabled
            /\ (th[t].pc = "rnj_guard" /\ StepOf(t)) => th'[t].pc = "rnj_fetch"]_vars

\* C26: right after run_next_job has returned all_jobs_completed,
\* chain_enabled is false.
C26_ChainLifecycle ==
    (reply.op # "none" /\ reply.reason = "all_jobs_completed") => ~chain_enabled

\* C27: when a report has finalized its job and returned success without a
\* next job being claimed, current_job is None and the watchdog the
\* orchestrator holds is not live.
C27_LeaseCleared ==
    (/\ reply.op = "report" /\ reply.success
     /\ reply.reason \in {"oprhan_job_execution_complete", "disabled_chain_ended_execution",
                          "all_jobs_completed"})
        => /\ current_job = 0
           /\ ~(execution_timer # 0 /\ timer[execution_timer] = "live")

\* C28: set_execution_result never writes a job's result while the watchdog
\* of that job is live.
C28_CancelBeforePersist ==
    (rpc.op = "upsert" /\ rpc.path = "report") => timer[rpc.key] # "live"

\* The policy the configuration names is one of the two stop policies.
StopPolicy == FAILURE_ACTION.value \in {"ALERT_STOP", "SILENT_STOP"}
BelowCeiling == failure_count <= MAX_SUBSEQUENT_EXECUTION_FAILURES_ALLOWED

\* C29: a PENDING report in an active chain, under a stop policy, returns
\* pending_not_allowed_for_active_chain with no store call, the flag and
\* current_job cleared and no next job claimed; under CONTINUE below the
\* ceiling it goes on to persist FAILED as a swallowed failure.
C29_PendingInChain ==
    [][\A t \in Requests :
            (th[t].pc = "ser_orphan" /\ th[t].result = "PENDING" /\ chain_enabled /\ StepOf(t))
                => IF StopPolicy
                   THEN /\ reply' = [op |-> "report", success |-> FALSE,
                                     reason |-> "pending_not_allowed_for_active_chain"]
                        /\ rpc' = NoRpc /\ store' = store
                        /\ is_automation_active' = FALSE /\ current_job' = 0
                        /\ th'[t] = Idle
                   ELSE BelowCeiling
                          => /\ th'[t].pc \in {"ser_cancel", "ser_write"}
                             /\ th'[t].eft
                             /\ ResultMapping(th'[t].result).execution_result = "FAILED"]_vars

\* C30: a chained report whose store write raises, or whose result maps to no write,
\* under a stop policy returns the failure with the flag and current_job
\* cleared and claims no next job; under CONTINUE below the ceiling it goes on
\* to continue the chain as a swallowed failure.
C30_WriteFailure ==
    [][\A t \in Requests :
            (/\ th[t].pc = "ser_write" /\ ~th[t].orphan /\ StepOf(t)
             /\ (rpc' = NoRpc \/ ~rpc'.ok))
                => IF StopPolicy
                   THEN /\ reply'.op = "report" /\ ~reply'.success
                        /\ reply'.reason = (IF rpc' = NoRpc THEN "invalid_execution_result"
                                            ELSE "database_updation_failure")
                        /\ store' = store
                        /\ is_automation_active' = FALSE /\ current_job' = 0
                        /\ th'[t] = Idle
                   ELSE BelowCeiling => th'[t].pc = "ser_ui" /\ th'[t].eft]_vars

\* C31: under CONTINUE a failed session open attempts the write of FAILED for
\* its job and, below the ceiling, goes back to the guard for the next job with
\* current_job cleared and one more failure counted; the failed open that
\* reaches MAX_SUBSEQUENT_RUN_JOBS_FAILURE_ALLOWED returns the failure named
\* after the retries.
C31_OpenCeiling ==
    [][\A t \in Threads :
            (th[t].pc = "rnj_openfail" /\ FAILURE_ACTION.value = "CONTINUE" /\ StepOf(t))
                => /\ rpc'.op = "upsert" /\ rpc'.key = th[t].job
                   /\ rpc'.executionResult = "failed"
                   /\ IF th[t].fails + 1 >= MAX_SUBSEQUENT_RUN_JOBS_FAILURE_ALLOWED
                      THEN /\ ~Running(t)'
                           /\ th[t].op # "timeout"
                                => /\ ~reply'.success
                                   /\ reply'.reason = "faild_to_open_automation_session_with_retries"
                      ELSE /\ th'[t].pc = "rnj_guard"
                           /\ th'[t].fails = th[t].fails + 1
                           /\ current_job' = 0]_vars

\* C32: under a stop policy a failed session open clears the active flag and
\* current_job and returns the failure, and afterwards the watchdog started for
\* the failed job fetch-and-locks no job.  The chain receives no new start and
\* no report, so a row is final only through the write of a failed open.
C32_OpenFailureHalts ==
    [][/\ \A t \in Threads :
            (th[t].pc = "rnj_openfail" /\ StopPolicy /\ StepOf(t))
                => /\ is_automation_active' = FALSE /\ current_job' = 0
                   /\ ~Running(t)'
                   /\ th[t].op # "timeout"
                        => ~reply'.success /\ reply'.reason = "faild_to_open_automation_session"
       /\ \A t \in TimerThreads :
            (/\ StopPolicy /\ store[KeyOf(t)] = "final"
             /\ th[t].pc = "rnj_fetch" /\ StepOf(t))
                => (rpc'.op = "fetch" => rpc'.got = 0)]_vars

\* C33: every write the orchestrator issues (report, failed open, timeout)
\* carries applicationStatus only as job_expired or applied, and then with the
\* same executionResult; a write of any other result leaves the field out.
C33_StatusWrites ==
    rpc.op = "upsert"
        => /\ rpc.applicationStatus # "none"
                => /\ rpc.applicationStatus \in {"job_expired", "applied"}
                   /\ rpc.applicationStatus = rpc.executionResult
           /\ rpc.executionResult \notin {"job_expired", "applied"}
                => rpc.applicationStatus = "none"

\* A report wrote job_expired with its status, and a watchdog has fired.
C33_Witness ==
    /\ rpc.op = "upsert" /\ rpc.path = "report" /\ rpc.ok
    /\ rpc.applicationStatus = "job_expired"
    /\ \E j \in JobKeys : timer[j] = "fired"

\* C34: a report of a valid result other than PENDING handled while
\* chain_enabled is false keeps the caller's key, is an orphan (no cancel, no
\* halt), writes the result under that key, and after the write clears the
\* active flag and returns success without calling run_next_job: no row is
\* locked, no lease taken and no watchdog started.
C34_OrphanCompletion ==
    [][\A t \in Requests :
            /\ (th[t].pc = "ser_key" /\ ~chain_enabled /\ StepOf(t))
                  => th'[t].pc = "ser_orphan" /\ th'[t].key = th[t].key
            /\ (/\ th[t].pc = "ser_orphan" /\ ~chain_enabled /\ StepOf(t)
                /\ th[t].result \in DrainResults)
                  => /\ th'[t].pc = "ser_write" /\ th'[t].orphan
                     /\ th'[t].key = th[t].key /\ th'[t].result = th[t].result
                     /\ timer' = timer /\ rpc' = NoRpc
            /\ (/\ th[t].pc = "ser_write" /\ th[t].orphan /\ StepOf(t)
                /\ th[t].result \in DrainResults /\ rpc'.ok)
                  => /\ rpc' = UpsertRpc("report", th[t].key, MappingTable[th[t].result][1],
                                         MappingTable[th[t].result][2], TRUE)
                     /\ th'[t].pc = "ser_ui" /\ th'[t].orphan
            /\ (th[t].pc = "ser_ui" /\ th[t].orphan /\ StepOf(t))
                  => /\ is_automation_active' = FALSE
                     /\ reply' = [op |-> "report", success |-> TRUE,
                                  reason |-> "oprhan_job_execution_complete"]
                     /\ th'[t] = Idle
                     /\ rpc' = NoRpc /\ store' = store /\ timer' = timer
                     /\ current_job' = current_job /\ execution_timer' = execution_timer]_vars

\* C34's case: an orphan report has written its result and returned success.
C34_Witness ==
    /\ reply.op = "report" /\ reply.success
    /\ reply.reason = "oprhan_job_execution_complete"
    /\ ~chain_enabled /\ ~is_automation_active
    /\ \E j \in JobKeys : store[j] = "final"

\* C35: the comparisons with FailureAction's members select the branch of the
\* policy the configuration names: each comparison is true exactly for the
\* value of that name, and a job without applyUrl or with a failed session
\* open is skipped under CONTINUE (below the ceiling), halts with the notifier
\* called under ALERT_STOP and halts without it under SILENT_STOP.
C35_ConfiguredPolicy ==
    /\ [](\A name \in {"CONTINUE", "ALERT_STOP", "SILENT_STOP"} :
            PyEq(FAILURE_ACTION, FailureAction[name]) <=> FAILURE_ACTION.value = name)
    /\ [][\A t \in Threads :
            (/\ StepOf(t)
             /\ \/ th[t].pc = "rnj_timer" /\ ~th[t].url
                \/ th[t].pc = "rnj_openfail")
                => CASE FAILURE_ACTION.value = "CONTINUE"
                          -> \/ th'[t].pc = "rnj_guard" /\ ~notified'
                             \/ /\ th[t].pc = "rnj_openfail"
                                /\ th[t].fails + 1 >= MAX_SUBSEQUENT_RUN_JOBS_FAILURE_ALLOWED
                     [] FAILURE_ACTION.value = "ALERT_STOP"
                          -> ~Running(t)' /\ notified'
                     [] FAILURE_ACTION.value = "SILENT_STOP"
                          -> ~Running(t)' /\ ~notified']_vars

\* C36: the consecutive-failure counter stays within
\* 0..MAX_SUBSEQUENT_EXECUTION_FAILURES_ALLOWED + 1: its update keeps every
\* count that passed the ceiling test within that range, and the counter
\* changes only in the step of a chained set_execution_result call that goes
\* on to run_next_job.
C36_CounterBounded ==
    /\ [](failure_count \in 0..(MAX_SUBSEQUENT_EXECUTION_FAILURES_ALLOWED + 1))
    /\ [](\A c \in 0..MAX_SUBSEQUENT_EXECUTION_FAILURES_ALLOWED : \A e \in BOOLEAN :
            NextFailureCount(e, c) \in 0..(MAX_SUBSEQUENT_EXECUTION_FAILURES_ALLOWED + 1))
    /\ [][failure_count' # failure_count
            => \E t \in Requests :
                  /\ th[t].pc = "ser_ui" /\ ~th[t].orphan /\ chain_enabled
                  /\ StepOf(t) /\ th'[t].pc = "rnj_guard"]_vars

\* C36's case: a chained report has set the counter and is about to call
\* run_next_job.
C36_Witness ==
    \E t \in Requests :
        /\ th[t].op = "report" /\ th[t].pc = "rnj_guard"
        /\ chain_enabled /\ current_job = 0
        /\ failure_count \in 0..(MAX_SUBSEQUENT_EXECUTION_FAILURES_ALLOWED + 1)

\* C37: whenever a watchdog timer is live, current_job is the job it was
\* started for; no watchdog is live once run_next_job has returned a failure
\* or all_jobs_completed.
C37_WatchdogLeaseAgree ==
    /\ \A j \in JobKeys : timer[j] = "live" => current_job = j
    /\ (/\ reply.op \in {"start", "report"}
        /\ reply.reason \in {"automation_already_running", "all_jobs_completed",
                              "faild_to_open_automation_session",
                              "faild_to_open_automation_session_with_retries",
                              "job_without_applyurl_database_error"})
          => \A j \in JobKeys : timer[j] # "live"

\* C38: a report for a job that is already finalized or timed out, arriving
\* when current_job is another job, stays a report for the job it names: it is
\* not turned into a report for current_job, whose row, lease and watchdog the
\* call would then write, release and cancel.
C38_LateReportIsolation ==
    [][\A t \in Requests :
            (/\ th[t].pc = "ser_key" /\ StepOf(t)
             /\ current_job # 0 /\ th[t].key # current_job
             /\ (store[th[t].key] = "final" \/ timer[th[t].key] = "fired"))
                => (Running(t)' => th'[t].key = th[t].key)]_vars

\* C39: every invocation of run_next_job ends (it returns, or the store's
\* exception leaves it), and every job it fetch-and-locks was pending until
\* then, so that no job is claimed twice.
C39_RunTerminates ==
    /\ [][(rpc'.op = "fetch" /\ rpc'.got # 0)
            => store[rpc'.got] = "pending" /\ store'[rpc'.got] = "processing"]_vars
    /\ \A t \in Requests : (th[t].pc \in PastGuard \cup {"rnj_guard"}) ~> (th[t].pc = "idle")

\* C39's case: an invocation that claimed the last pending job has returned.
C39_Witness ==
    /\ reply.op = "start" /\ reply.reason # "exception"
    /\ \A t \in Requests : th[t].pc = "idle"
    /\ \A j \in JobKeys : store[j] # "pending"

====
